---- MODULE Spec2Model ----
(***************************************************************************)
(* Model of src/app.py: a FastAPI application that proxies a Binance       *)
(* futures balance, appends balance snapshots to balance_history.json and  *)
(* keeps an anonymous comment feed in comments.json.                       *)
(*                                                                         *)
(* Three specifications share the definitions below.                      *)
(*   Spec      one server process: every handler is an `async def` with no *)
(*             await in it, so a request runs from start to end as one     *)
(*             step.                                                       *)
(*   SpecLong  the same handler get_summary, run more than MAX_HISTORY_LEN *)
(*             times in a row.                                             *)
(*   SpecRace  two server processes on the same DATA_DIR: a handler is     *)
(*             split at its file-system operations (read the file, open it *)
(*             for writing, write and close it).                           *)
(***************************************************************************)
EXTENDS Integers, Sequences, FiniteSets, TLC

VARIABLES
    BINANCE_API_KEY,     \* app.py:19, read once at import
    BINANCE_API_SECRET,  \* app.py:20
    commentsFile,        \* content of COMMENTS_FILE
    historyFile,         \* content of BALANCE_HISTORY_FILE
    clock,               \* what datetime.utcnow() returns next: a counter that every
                         \* call advances, so that two entries never carry one stamp
    exchange,            \* calls made to futures_account_balance() and its last reply
    resp,                \* the request handled by the last step and its response
    nreq,                \* requests handled so far
    appended,            \* history of the run: snapshots saved by get_summary, in order
    pc,                  \* SpecRace: each process's position in its handler
    job                  \* SpecRace: each process's local variables

vars == <<BINANCE_API_KEY, BINANCE_API_SECRET, commentsFile, historyFile, clock,
          exchange, resp, nreq, appended, pc, job>>

-----------------------------------------------------------------------------
(* Bounds and program constants *)

MAX_HISTORY_LEN == 500

\* requests handled in a run of Spec
MaxRequests == 3

\* requests handled in a run of SpecLong
MaxLongRun == 503

\* requests started in a run of SpecRace
MaxRaceRequests == 3

-----------------------------------------------------------------------------
(* Python values *)

NoneValue == "<None>"

\* bool(v) of an Optional[str]
Truthy(v) == v # NoneValue /\ v # ""

\* the characters str.strip() removes, as far as the inputs below use them
Whitespace == {" ", "\t", "\n"}

RECURSIVE lstrip(_)
lstrip(s) ==
    IF s # <<>> /\ Head(s) \in Whitespace THEN lstrip(Tail(s)) ELSE s

RECURSIVE rstrip(_)
rstrip(s) ==
    IF s # <<>> /\ s[Len(s)] \in Whitespace
    THEN rstrip(SubSeq(s, 1, Len(s) - 1))
    ELSE s

\* a mutant of strip: the content is used as received
strip_none(s) == s

\* comment.content.strip()
strip(s) == rstrip(lstrip(s))

\* float(x): x is a field of the exchange's reply, or absent (.get's default 0)
float(x) ==
    IF x.num THEN [raised |-> FALSE, v |-> x.v] ELSE [raised |-> TRUE, v |-> 0]

Num(n) == [num |-> TRUE, v |-> n]
NotANumber == [num |-> FALSE, v |-> 0]

-----------------------------------------------------------------------------
(* The two JSON files *)

Absent    == [kind |-> "absent",  items |-> <<>>]   \* os.path.exists is False
EmptyFile == [kind |-> "empty",   items |-> <<>>]   \* zero bytes: just opened with "w"
BadJson   == [kind |-> "badjson", items |-> <<>>]   \* text json.load cannot parse
BadUtf8   == [kind |-> "badutf8", items |-> <<>>]   \* bytes that are not UTF-8
JsonObject == [kind |-> "object", items |-> <<>>]   \* valid JSON, an object {"k": 1}

\* json.dump(list, f, ensure_ascii=False, indent=2) into an empty file
json_dump(list) == [kind |-> "array", items |-> list]

\* json.load(f) on an open file
json_load(file) ==
    CASE file.kind = "array"   -> [raised |-> "",                isList |-> TRUE,  items |-> file.items]
      [] file.kind = "object"  -> [raised |-> "",                isList |-> FALSE, items |-> <<>>]
      [] file.kind = "badutf8" -> [raised |-> "UnicodeDecodeError", isList |-> FALSE, items |-> <<>>]
      [] OTHER                 -> [raised |-> "JSONDecodeError", isList |-> FALSE, items |-> <<>>]

\* the body shared by load_comments and load_balance_history
load_file(file) ==
    IF file.kind = "absent"
    THEN [raised |-> "", isList |-> TRUE, items |-> <<>>]
    ELSE LET r == json_load(file) IN
         IF r.raised = "JSONDecodeError"
         THEN [raised |-> "", isList |-> TRUE, items |-> <<>>]
         ELSE r

load_comments(file) == load_file(file)

load_balance_history(file) == load_file(file)

\* save_comments / save_balance_history into a file just truncated by open(.., "w")
save_comments(comments) == json_dump(comments)

save_balance_history(history) == json_dump(history)

\* what the file holds after a process that opened it with "w" writes `text` from
\* offset 0 and closes it: `text` when the file is still empty; when another
\* process wrote in between, `text` followed by whatever of the other's bytes lie
\* beyond it
write_at_start(cur, text) ==
    IF cur.kind = "empty" THEN {text} ELSE {text, BadJson, BadUtf8}

\* the sequence a reader of the store gets: what load returns when it returns a list
Stored(file) == LET r == load_file(file) IN IF r.raised = "" /\ r.isList THEN r.items ELSE <<>>

-----------------------------------------------------------------------------
(* Handlers' computations *)

\* get_binance_client: raises when a credential is missing
get_binance_client_and(key, secret) ==
    [raised |-> ~Truthy(key) /\ ~Truthy(secret)]

get_binance_client(key, secret) ==
    [raised |-> ~Truthy(key) \/ ~Truthy(secret)]

\* the first entry of the reply whose asset is "USDT", None if there is none
RECURSIVE find_usdt(_)
find_usdt(balances) ==
    IF balances = <<>> THEN [found |-> FALSE, balance |-> Num(0), availableBalance |-> Num(0)]
    ELSE IF Head(balances).asset = "USDT"
         THEN [found |-> TRUE, balance |-> Head(balances).balance,
               availableBalance |-> Head(balances).availableBalance]
         ELSE find_usdt(Tail(balances))

\* history[-MAX_HISTORY_LEN:] when the history is longer than MAX_HISTORY_LEN
LastN(s, n) == IF Len(s) > n THEN SubSeq(s, Len(s) - n + 1, Len(s)) ELSE s

\* mutants of the trimming: none at all, and history[:MAX_HISTORY_LEN]
trim_none(history) == history

trim_oldest_kept(history) ==
    IF Len(history) > MAX_HISTORY_LEN THEN SubSeq(history, 1, MAX_HISTORY_LEN) ELSE history

trim(history) ==
    IF Len(history) > MAX_HISTORY_LEN THEN LastN(history, MAX_HISTORY_LEN) ELSE history

\* a mutant of the snapshot: the balance saved is not the one reported
snapshot_other(now, futures_usdt) == [timestamp |-> now, balance |-> futures_usdt + 1]

snapshot(now, futures_usdt) == [timestamp |-> now, balance |-> futures_usdt]

\* mutants of comments.append: the new entry goes first; the new entry is dropped
comments_prepend(comments, entry) == <<entry>> \o comments

comments_append_lost(comments, entry) == comments

comments_append(comments, entry) == Append(comments, entry)

history_append(history, entry) == Append(history, entry)

\* the literal before {idx} in the f-strings (U+C775 U+BA85, "anonymous")
NickPrefix == "ikmyeong"

\* the f-string of the nick: the prefix followed by the decimal idx
nick(idx) == <<NickPrefix, idx>>

CommentOut(id, content, created_at) ==
    [id |-> id, nick |-> nick(id), content |-> content, created_at |-> created_at]

\* a mutant of the listing: enumerate(comments) without start=1
list_comments_from_zero(comments) ==
    [i \in 1..Len(comments) |->
        CommentOut(i - 1, comments[i].content, comments[i].created_at)]

\* the loop of get_comments over enumerate(comments, start=1)
list_comments(comments) ==
    [i \in 1..Len(comments) |->
        CommentOut(i, comments[i].content, comments[i].created_at)]

NoInput == <<>>

\* the messages of the error responses (the source's are Korean sentences)
ConfigError == "RuntimeError: Binance API key is not set"
BalanceError == "futures balance query failed"
SummaryError == "summary query failed"
InternalServerError == "Internal Server Error"
EmptyContent == "content is empty"

\* a response: `error` is "" for a success and the message otherwise
Response(route, input, status, error, body) ==
    [route |-> route, input |-> input, status |-> status, error |-> error, body |-> body]

Failure(route, input, status, error) == Response(route, input, status, error, <<>>)

-----------------------------------------------------------------------------
(* The environment: the exchange, the requests' bodies, the files at start *)

Entry(asset, balance, availableBalance) ==
    [asset |-> asset, balance |-> balance, availableBalance |-> availableBalance]

\* what client.futures_account_balance() can do: raise, or return a list
ExchangeReplies ==
    { [raised |-> TRUE,  balances |-> <<>>],
      [raised |-> FALSE, balances |-> <<Entry("BTC", Num(1), Num(1))>>],
      [raised |-> FALSE, balances |-> <<Entry("BTC", Num(1), Num(1)),
                                        Entry("USDT", Num(42), Num(40))>>],
      [raised |-> FALSE, balances |-> <<Entry("USDT", NotANumber, Num(0))>>] }

\* the reply of the exchange in SpecLong: a USDT balance that moves with time
long_reply(t) ==
    [raised |-> FALSE, balances |-> <<Entry("USDT", Num((t % 3) * 21), Num(0))>>]

\* the bodies of POST /api/comments
Contents ==
    { <<>>, <<" ", "\t">>, <<"a">>, <<" ", "a", "\n">>, <<"a", " ", "b">> }

\* the environment's credentials
Credentials ==
    { <<NoneValue, NoneValue>>, <<"k", NoneValue>>, <<"", "s">>, <<"k", "s">> }

\* a history file written by earlier runs: n snapshots, the newest stamped 0
InitialHistory(n) == [i \in 1..n |-> [timestamp |-> i - n, balance |-> 7]]

InitialComments == << [content |-> <<"z">>, created_at |-> 0] >>

Workers == {"w1", "w2"}

NoJob == [store |-> "none", base |-> <<>>, list |-> <<>>, rec |-> <<>>, done |-> FALSE,
          input |-> NoInput, body |-> <<>>]

InitCommon ==
    /\ clock = 1
    /\ exchange = [calls |-> 0, last |-> [raised |-> FALSE, balances |-> <<>>]]
    /\ resp = Response("none", NoInput, 0, "", <<>>)
    /\ nreq = 0
    /\ appended = <<>>
    /\ pc = [w \in Workers |-> "idle"]
    /\ job = [w \in Workers |-> NoJob]

Init ==
    /\ \E c \in Credentials : BINANCE_API_KEY = c[1] /\ BINANCE_API_SECRET = c[2]
    /\ commentsFile \in {Absent, BadJson, BadUtf8, JsonObject, json_dump(InitialComments)}
    /\ historyFile \in {Absent, BadJson, BadUtf8, JsonObject, json_dump(InitialHistory(1)),
                        json_dump(InitialHistory(MAX_HISTORY_LEN - 1)),
                        json_dump(InitialHistory(MAX_HISTORY_LEN))}
    /\ InitCommon

-----------------------------------------------------------------------------
(* The handlers, one step each (Spec) *)

Handled(r) == /\ resp' = r
              /\ nreq' = nreq + 1

\* GET /
read_root ==
    /\ Handled(Response("root", NoInput, 200, "", "index.html"))
    /\ UNCHANGED <<BINANCE_API_KEY, BINANCE_API_SECRET, commentsFile, historyFile,
                   clock, exchange, appended, pc, job>>

\* GET /health
health_check ==
    /\ Handled(Response("health", NoInput, 200, "", [status |-> "ok"]))
    /\ UNCHANGED <<BINANCE_API_KEY, BINANCE_API_SECRET, commentsFile, historyFile,
                   clock, exchange, appended, pc, job>>

\* the body of get_balance once the client exists
balance_response(reply) ==
    IF reply.raised THEN Failure("balance", NoInput, 500, BalanceError)
    ELSE LET usdt_info == find_usdt(reply.balances) IN
         IF ~usdt_info.found
         THEN Response("balance", NoInput, 200, "", [status |-> "ok", balances |-> <<>>])
         ELSE LET total == float(usdt_info.balance)
                  free  == float(usdt_info.availableBalance) IN
              IF total.raised \/ free.raised
              THEN Failure("balance", NoInput, 500, BalanceError)
              ELSE Response("balance", NoInput, 200, "",
                    [status |-> "ok",
                     balances |-> << [asset |-> "USDT (Futures)", free |-> free.v,
                                      locked |-> total.v - free.v, total |-> total.v] >>])

\* GET /api/balance
get_balance ==
    /\ IF get_binance_client(BINANCE_API_KEY, BINANCE_API_SECRET).raised
       THEN /\ Handled(Failure("balance", NoInput, 500, ConfigError))
            /\ UNCHANGED exchange
       ELSE \E reply \in ExchangeReplies :
            /\ exchange' = [calls |-> exchange.calls + 1, last |-> reply]
            /\ Handled(balance_response(reply))
    /\ UNCHANGED <<BINANCE_API_KEY, BINANCE_API_SECRET, commentsFile, historyFile,
                   clock, appended, pc, job>>

\* get_summary from the reply of the exchange to the list it is about to save:
\* status 0 means "go on and save `list`"; `ticks` tells whether utcnow() was called
summary_prepare(reply, file, now) ==
    LET usdt_info == find_usdt(reply.balances)
        futures_usdt == IF ~usdt_info.found THEN [raised |-> FALSE, v |-> 0]
                        ELSE float(usdt_info.balance)
        history == load_balance_history(file)
        failed(t) == [status |-> 500, error |-> SummaryError, body |-> <<>>, ticks |-> t, base |-> <<>>,
                      list |-> <<>>, rec |-> <<>>]
    IN  IF reply.raised \/ futures_usdt.raised THEN failed(FALSE)
        ELSE IF history.raised # "" THEN failed(FALSE)
        ELSE IF ~history.isList THEN failed(TRUE)
        ELSE [status |-> 0,
              error |-> "",
              body |-> [status |-> "ok",
                        summary |-> [coin_count |-> 1,
                                     futures_usdt_balance |-> futures_usdt.v,
                                     pnl_rate |-> NoneValue]],
              ticks |-> TRUE,
              base |-> history.items,
              list |-> trim(history_append(history.items, snapshot(now, futures_usdt.v))),
              rec |-> snapshot(now, futures_usdt.v)]

\* GET /api/summary, given what the exchange replies when it is called
summary(reply) ==
    /\ IF get_binance_client(BINANCE_API_KEY, BINANCE_API_SECRET).raised
       THEN /\ Handled(Failure("summary", NoInput, 500, ConfigError))
            /\ UNCHANGED <<exchange, historyFile, clock, appended>>
       ELSE LET r == summary_prepare(reply, historyFile, clock) IN
            /\ exchange' = [calls |-> exchange.calls + 1, last |-> reply]
            /\ clock' = IF r.ticks THEN clock + 1 ELSE clock
            /\ IF r.status = 0
               THEN /\ historyFile' = save_balance_history(r.list)
                    /\ appended' = Append(appended, r.rec)
                    /\ Handled(Response("summary", NoInput, 200, "", r.body))
               ELSE /\ Handled(Failure("summary", NoInput, r.status, r.error))
                    /\ UNCHANGED <<historyFile, appended>>
    /\ UNCHANGED <<BINANCE_API_KEY, BINANCE_API_SECRET, commentsFile, pc, job>>

get_summary == \E reply \in ExchangeReplies : summary(reply)

\* a mutant of get_balance_history: the loaded history is written back
get_balance_history_saving ==
    LET history == load_balance_history(historyFile) IN
    /\ IF history.raised # ""
       THEN /\ Handled(Failure("balance_history", NoInput, 500, InternalServerError))
            /\ UNCHANGED historyFile
       ELSE /\ Handled(Response("balance_history", NoInput, 200, "",
                                [status |-> "ok", history |-> history.items]))
            /\ historyFile' = save_balance_history(history.items)
    /\ UNCHANGED <<BINANCE_API_KEY, BINANCE_API_SECRET, commentsFile,
                   clock, exchange, appended, pc, job>>

\* GET /api/balance-history
get_balance_history ==
    LET history == load_balance_history(historyFile) IN
    /\ IF history.raised # ""
       THEN Handled(Failure("balance_history", NoInput, 500, InternalServerError))
       ELSE Handled(Response("balance_history", NoInput, 200, "",
                             [status |-> "ok",
                              history |-> IF history.isList THEN history.items
                                          ELSE "{k: 1}"]))
    /\ UNCHANGED <<BINANCE_API_KEY, BINANCE_API_SECRET, commentsFile, historyFile,
                   clock, exchange, appended, pc, job>>

\* GET /api/comments
get_comments ==
    LET comments == load_comments(commentsFile) IN
    /\ IF comments.raised # "" \/ ~comments.isList
       THEN Handled(Failure("get_comments", NoInput, 500, InternalServerError))
       ELSE Handled(Response("get_comments", NoInput, 200, "", list_comments(comments.items)))
    /\ UNCHANGED <<BINANCE_API_KEY, BINANCE_API_SECRET, commentsFile, historyFile,
                   clock, exchange, appended, pc, job>>

\* post_comment from its body to the list it is about to save (status 0: go on)
post_prepare(input, file, now) ==
    LET content == strip(input)
        comments == load_comments(file)
        stop(st, e, t) == [status |-> st, error |-> e, body |-> <<>>, ticks |-> t, base |-> <<>>,
                           list |-> <<>>, rec |-> <<>>]
    IN  IF content = <<>> THEN stop(400, EmptyContent, FALSE)
        ELSE IF comments.raised # "" THEN stop(500, InternalServerError, FALSE)
        ELSE IF ~comments.isList THEN stop(500, InternalServerError, TRUE)
        ELSE LET entry == [content |-> content, created_at |-> now]
                 list  == comments_append(comments.items, entry) IN
             [status |-> 0,
              error |-> "",
              body |-> CommentOut(Len(list), content, now),
              ticks |-> TRUE,
              base |-> comments.items,
              list |-> list,
              rec |-> entry]

\* POST /api/comments
post_comment ==
    \E input \in Contents :
        LET r == post_prepare(input, commentsFile, clock) IN
        /\ clock' = IF r.ticks THEN clock + 1 ELSE clock
        /\ IF r.status = 0
           THEN /\ commentsFile' = save_comments(r.list)
                /\ Handled(Response("post_comment", input, 200, "", r.body))
           ELSE /\ Handled(Failure("post_comment", input, r.status, r.error))
                /\ UNCHANGED commentsFile
        /\ UNCHANGED <<BINANCE_API_KEY, BINANCE_API_SECRET, historyFile,
                       exchange, appended, pc, job>>

Next ==
    \/ nreq < MaxRequests /\ read_root
    \/ nreq < MaxRequests /\ health_check
    \/ nreq < MaxRequests /\ get_balance
    \/ nreq < MaxRequests /\ get_summary
    \/ nreq < MaxRequests /\ get_balance_history
    \/ nreq < MaxRequests /\ get_comments
    \/ nreq < MaxRequests /\ post_comment

Spec == Init /\ [][Next]_vars

-----------------------------------------------------------------------------
(* SpecLong: GET /api/summary again and again, the exchange always answering *)

InitLong ==
    /\ BINANCE_API_KEY = "k"
    /\ BINANCE_API_SECRET = "s"
    /\ commentsFile = Absent
    /\ historyFile \in {Absent, BadJson, json_dump(InitialHistory(1)),
                        json_dump(InitialHistory(MAX_HISTORY_LEN - 1)),
                        json_dump(InitialHistory(MAX_HISTORY_LEN))}
    /\ InitCommon

NextLong == nreq < MaxLongRun /\ summary(long_reply(clock))

SpecLong == InitLong /\ [][NextLong]_vars

-----------------------------------------------------------------------------
(* SpecRace: two processes serving requests over the same two files *)

InitRace ==
    /\ \E c \in {<<"k", "s">>, <<"k", NoneValue>>} :
          BINANCE_API_KEY = c[1] /\ BINANCE_API_SECRET = c[2]
    /\ commentsFile \in {Absent, json_dump(InitialComments)}
    /\ historyFile \in {Absent, json_dump(InitialHistory(1))}
    /\ InitCommon

FileOf(store) == IF store = "comments" THEN commentsFile ELSE historyFile

\* process w answers without saving anything
Answered(w, r) ==
    /\ resp' = r
    /\ pc' = [pc EXCEPT ![w] = "idle"]
    /\ job' = [job EXCEPT ![w] = NoJob]

\* process w goes on to save r.list
Loaded(w, store, input, r) ==
    /\ pc' = [pc EXCEPT ![w] = "loaded"]
    /\ job' = [job EXCEPT ![w] = [store |-> store, base |-> r.base, list |-> r.list,
                                  rec |-> r.rec, done |-> FALSE, input |-> input,
                                  body |-> r.body]]
    /\ UNCHANGED resp

\* post_comment up to comments.append (app.py:241-254)
post_comment_load(w) ==
    /\ pc[w] = "idle"
    /\ nreq' = nreq + 1
    /\ \E input \in Contents :
        LET r == post_prepare(input, commentsFile, clock) IN
        /\ clock' = IF r.ticks THEN clock + 1 ELSE clock
        /\ IF r.status = 0
           THEN Loaded(w, "comments", input, r)
           ELSE Answered(w, Failure("post_comment", input, r.status, r.error))
    /\ UNCHANGED <<BINANCE_API_KEY, BINANCE_API_SECRET, commentsFile, historyFile,
                   exchange, appended>>

\* get_summary up to the trimming of the history (app.py:165-195)
get_summary_load(w) ==
    /\ pc[w] = "idle"
    /\ nreq' = nreq + 1
    /\ IF get_binance_client(BINANCE_API_KEY, BINANCE_API_SECRET).raised
       THEN /\ Answered(w, Failure("summary", NoInput, 500, ConfigError))
            /\ UNCHANGED <<exchange, clock>>
       ELSE \E reply \in ExchangeReplies :
            LET r == summary_prepare(reply, historyFile, clock) IN
            /\ exchange' = [calls |-> exchange.calls + 1, last |-> reply]
            /\ clock' = IF r.ticks THEN clock + 1 ELSE clock
            /\ IF r.status = 0
               THEN Loaded(w, "history", NoInput, r)
               ELSE Answered(w, Failure("summary", NoInput, r.status, r.error))
    /\ UNCHANGED <<BINANCE_API_KEY, BINANCE_API_SECRET, commentsFile, historyFile,
                   appended>>

\* `with open(FILE, "w", encoding="utf-8") as f`: the file is truncated
save_open(w) ==
    /\ pc[w] = "loaded"
    /\ pc' = [pc EXCEPT ![w] = "opened"]
    /\ IF job[w].store = "comments"
       THEN commentsFile' = EmptyFile /\ UNCHANGED historyFile
       ELSE historyFile' = EmptyFile /\ UNCHANGED commentsFile
    /\ UNCHANGED <<BINANCE_API_KEY, BINANCE_API_SECRET, clock, exchange, resp, nreq,
                   appended, job>>

\* json.dump and the end of the with block, then the handler's return
save_dump(w) ==
    /\ pc[w] = "opened"
    /\ pc' = [pc EXCEPT ![w] = "idle"]
    /\ job' = [job EXCEPT ![w].done = TRUE]
    /\ IF job[w].store = "comments"
       THEN /\ commentsFile' \in write_at_start(commentsFile, save_comments(job[w].list))
            /\ resp' = Response("post_comment", job[w].input, 200, "", job[w].body)
            /\ UNCHANGED <<historyFile, appended>>
       ELSE /\ historyFile' \in write_at_start(historyFile, save_balance_history(job[w].list))
            /\ resp' = Response("summary", NoInput, 200, "", job[w].body)
            /\ appended' = Append(appended, job[w].rec)
            /\ UNCHANGED commentsFile
    /\ UNCHANGED <<BINANCE_API_KEY, BINANCE_API_SECRET, clock, exchange, nreq>>

NextRace ==
    \E w \in Workers :
        \/ nreq < MaxRaceRequests /\ post_comment_load(w)
        \/ nreq < MaxRaceRequests /\ get_summary_load(w)
        \/ save_open(w)
        \/ save_dump(w)

SpecRace == InitRace /\ [][NextRace]_vars

-----------------------------------------------------------------------------
(* Properties *)

Min(a, b) == IF a <= b THEN a ELSE b

IsPrefix(s, t) == Len(s) <= Len(t) /\ \A i \in 1..Len(s) : s[i] = t[i]

IsBlank(s) == \A i \in 1..Len(s) : s[i] \in Whitespace

\* t is s without its leading and trailing whitespace
IsTrimOf(t, s) ==
    /\ t # <<>>
    /\ t[1] \notin Whitespace
    /\ t[Len(t)] \notin Whitespace
    /\ \E i \in 1..Len(s) :
          /\ i + Len(t) - 1 <= Len(s)
          /\ SubSeq(s, i, i + Len(t) - 1) = t
          /\ IsBlank(SubSeq(s, 1, i - 1))
          /\ IsBlank(SubSeq(s, i + Len(t), Len(s)))

Holds(file, rec) ==
    file.kind = "array" /\ \E i \in 1..Len(file.items) : file.items[i] = rec

CredentialsMissing ==
    \/ BINANCE_API_KEY \in {NoneValue, ""}
    \/ BINANCE_API_SECRET \in {NoneValue, ""}

NoUsdt(reply) == \A i \in 1..Len(reply.balances) : reply.balances[i].asset # "USDT"

\* a step that handles one request
Served == nreq' = nreq + 1

\* two processes have each completed an append to the same store, and both had
\* loaded the same sequence
Raced(a, b) ==
    /\ a # b
    /\ pc[a] = "idle" /\ pc[b] = "idle"
    /\ job[a].done /\ job[b].done
    /\ job[a].store = job[b].store
    /\ job[a].base = job[b].base

\* C1 (SpecRace): when two appends to the same store have both loaded the same
\* sequence and both completed, the store (if the last write left a readable
\* array) holds exactly one of the two appended records and is one entry longer
\* than the sequence they loaded: the other record is lost.
LostUpdate ==
    \A a, b \in Workers :
        (Raced(a, b) /\ FileOf(job[a].store).kind = "array") =>
            LET file == FileOf(job[a].store) IN
            /\ Holds(file, job[a].rec) # Holds(file, job[b].rec)
            /\ Len(file.items) = Len(job[a].base) + 1

LostUpdateWitness ==
    \E a, b \in Workers :
        /\ Raced(a, b)
        /\ job[a].store = "comments"
        /\ commentsFile = json_dump(Append(job[a].base, job[b].rec))
        /\ ~Holds(commentsFile, job[a].rec)
        /\ Len(job[a].base) = 1

\* C2 (Spec): the persisted balance history never has more than MAX_HISTORY_LEN
\* entries, whatever requests were handled.
HistoryBounded == Len(Stored(historyFile)) <= MAX_HISTORY_LEN

HistoryBoundedWitness ==
    /\ Len(Stored(historyFile)) = MAX_HISTORY_LEN
    /\ Len(appended) >= 2
    /\ Stored(historyFile)[MAX_HISTORY_LEN] = appended[Len(appended)]
    /\ Stored(historyFile)[1].timestamp > 1 - MAX_HISTORY_LEN

\* C3 (SpecLong): after more than MAX_HISTORY_LEN successful appends the history
\* is exactly the MAX_HISTORY_LEN most recently appended snapshots, in order ...
MostRecentKept ==
    Len(appended) > MAX_HISTORY_LEN =>
        /\ Len(Stored(historyFile)) = MAX_HISTORY_LEN
        /\ \A i \in 1..MAX_HISTORY_LEN :
              Stored(historyFile)[i] = appended[Len(appended) - MAX_HISTORY_LEN + i]

\* ... and one append to a full history drops only the oldest entry and puts the
\* new snapshot last.
OldestDropped ==
    (Served /\ resp'.status = 200 /\ Len(Stored(historyFile)) = MAX_HISTORY_LEN) =>
        /\ Len(Stored(historyFile')) = MAX_HISTORY_LEN
        /\ \A i \in 1..(MAX_HISTORY_LEN - 1) :
              Stored(historyFile')[i] = Stored(historyFile)[i + 1]
        /\ Stored(historyFile')[MAX_HISTORY_LEN].balance =
              resp'.body.summary.futures_usdt_balance
        /\ Stored(historyFile')[MAX_HISTORY_LEN].timestamp = clock

HistoryKeepsMostRecent == []MostRecentKept /\ [][OldestDropped]_vars

HistoryKeepsMostRecentWitness ==
    /\ Len(appended) > MAX_HISTORY_LEN + 1
    /\ Len(Stored(historyFile)) = MAX_HISTORY_LEN
    /\ Stored(historyFile)[1] = appended[Len(appended) - MAX_HISTORY_LEN + 1]
    /\ Stored(historyFile)[1] # appended[1]

\* C4 (Spec): a POST /api/comments whose content is empty or only whitespace is
\* answered 400 and leaves both files as they were.
BlankCommentRejected ==
    [][ (Served /\ resp'.route = "post_comment" /\ IsBlank(resp'.input)) =>
            /\ resp'.status = 400
            /\ commentsFile' = commentsFile
            /\ historyFile' = historyFile ]_vars

BlankCommentRejectedWitness ==
    /\ resp.route = "post_comment"
    /\ resp.input # <<>>
    /\ IsBlank(resp.input)
    /\ resp.status = 400
    /\ commentsFile.kind = "array"

\* the effect of a successful POST /api/comments
PostStored ==
    /\ Stored(commentsFile') =
          Append(Stored(commentsFile),
                 [content |-> resp'.body.content, created_at |-> resp'.body.created_at])
    /\ IsTrimOf(resp'.body.content, resp'.input)
    /\ resp'.body.id = Len(Stored(commentsFile'))
    /\ resp'.body.nick = <<NickPrefix, resp'.body.id>>

\* the last element of a listing is the last stored comment, numbered by position
ListedLast ==
    (resp.route = "get_comments" /\ resp.status = 200 /\ Len(resp.body) > 0) =>
        LET n == Len(resp.body) IN
        /\ n = Len(Stored(commentsFile))
        /\ resp.body[n].id = n
        /\ resp.body[n].nick = <<NickPrefix, n>>
        /\ resp.body[n].content = Stored(commentsFile)[n].content

\* C5 (Spec): every POST /api/comments whose content is not blank succeeds, stores
\* the trimmed content and returns id = the new length and nick = prefix + id, and
\* a GET /api/comments that follows lists that entry last with the same id, nick
\* and content.
CommentAppendSucceeds ==
    /\ []ListedLast
    /\ [][ (Served /\ resp'.route = "post_comment" /\ ~IsBlank(resp'.input)) =>
              (resp'.status = 200 /\ PostStored) ]_vars

\* C5 on the files load_comments returns a list for
CommentAppendOnListFile ==
    /\ []ListedLast
    /\ [][ (Served /\ resp'.route = "post_comment" /\ ~IsBlank(resp'.input)
                   /\ commentsFile.kind \in {"absent", "badjson", "empty", "array"}) =>
              (resp'.status = 200 /\ PostStored) ]_vars

\* C6 (Spec): no route that loads a store answers with an error because of what
\* the file holds: a 500 comes only from /api/balance or /api/summary, and only
\* when the credentials are missing or the exchange call failed.
NoErrorFromFileContent ==
    resp.status = 500 =>
        /\ resp.route \in {"balance", "summary"}
        /\ \/ CredentialsMissing
           \/ exchange.last.raised
           \/ \E i \in 1..Len(exchange.last.balances) :
                 ~exchange.last.balances[i].balance.num

\* C7 (Spec): with a credential missing, /api/balance and /api/summary answer 500
\* with the configuration message, the exchange is not called and no snapshot is
\* appended; the other routes answer as usual.
MissingCredentialsDegrade ==
    [][ (CredentialsMissing /\ Served) =>
            /\ exchange' = exchange
            /\ historyFile' = historyFile
            /\ appended' = appended
            /\ resp'.route \in {"balance", "summary"} =>
                  (resp'.status = 500 /\ resp'.error = ConfigError)
            /\ resp'.route \notin {"balance", "summary"} => resp'.error # ConfigError
            /\ resp'.route \in {"health", "root"} => resp'.status = 200
            /\ (resp'.route = "post_comment" /\ resp'.status = 200) =>
                  Len(Stored(commentsFile')) = Len(Stored(commentsFile)) + 1
            /\ (resp'.route = "post_comment" /\ ~IsBlank(resp'.input)
                   /\ commentsFile.kind \in {"absent", "badjson", "array"}) =>
                  resp'.status = 200
            /\ (resp'.route = "get_comments"
                   /\ commentsFile.kind \in {"absent", "badjson", "array"}) =>
                  (resp'.status = 200 /\ Len(resp'.body) = Len(Stored(commentsFile)))
            /\ (resp'.route = "balance_history"
                   /\ historyFile.kind \in {"absent", "badjson", "array"}) =>
                  (resp'.status = 200 /\ resp'.body.history = Stored(historyFile)) ]_vars

MissingCredentialsDegradeWitness ==
    /\ CredentialsMissing
    /\ Truthy(BINANCE_API_KEY)
    /\ resp.route = "summary"
    /\ resp.status = 500
    /\ Len(Stored(commentsFile)) >= 2
    /\ historyFile.kind = "array"

\* C8 (Spec): a GET /api/summary answered ok has called the exchange once and has
\* put exactly one snapshot at the end of the history, whose balance is the one
\* reported (0 when the reply has no USDT entry); a GET /api/summary whose exchange
\* call raised is answered 500 and leaves the history file as it was.
SummaryAppendsSnapshot ==
    [][ (Served /\ resp'.route = "summary") =>
            /\ exchange'.calls <= exchange.calls + 1
            /\ resp'.status = 200 =>
                  LET old == Stored(historyFile)
                      new == Stored(historyFile')
                      n   == Len(new) IN
                  /\ exchange'.calls = exchange.calls + 1
                  /\ n = Min(Len(old) + 1, MAX_HISTORY_LEN)
                  /\ new[n].balance = resp'.body.summary.futures_usdt_balance
                  /\ new[n].timestamp = clock
                  /\ \A i \in 1..(n - 1) : new[i] = old[Len(old) - (n - 1) + i]
                  /\ NoUsdt(exchange'.last) => new[n].balance = 0
            /\ (exchange'.calls # exchange.calls /\ exchange'.last.raised) =>
                  (resp'.status = 500 /\ historyFile' = historyFile) ]_vars

SummaryAppendsSnapshotWitness ==
    /\ resp.route = "summary"
    /\ resp.status = 200
    /\ resp.body.summary.futures_usdt_balance = 42
    /\ Len(Stored(historyFile)) >= 3
    /\ Stored(historyFile)[Len(Stored(historyFile))].balance = 42
    /\ Stored(historyFile)[Len(Stored(historyFile)) - 1].balance = 0

\* a listing numbers the stored comments 1..n in stored order
ListingByPosition ==
    (resp.route = "get_comments" /\ resp.status = 200) =>
        /\ Len(resp.body) = Len(Stored(commentsFile))
        /\ \A i \in 1..Len(resp.body) :
              /\ resp.body[i].id = i
              /\ resp.body[i].nick = <<NickPrefix, i>>
              /\ resp.body[i].content = Stored(commentsFile)[i].content
              /\ resp.body[i].created_at = Stored(commentsFile)[i].created_at

\* C9 (Spec): the stored comments before a request are a prefix of the stored
\* comments after it, and every listing numbers the stored comments 1..n in
\* stored order, so a comment keeps its id, nick and content in later listings.
CommentsAppendOnly ==
    /\ []ListingByPosition
    /\ [][IsPrefix(Stored(commentsFile), Stored(commentsFile'))]_vars

CommentsAppendOnlyWitness ==
    /\ resp.route = "get_comments"
    /\ resp.status = 200
    /\ Len(resp.body) >= 3
    /\ resp.body[1].content = <<"z">>

\* C10 (Spec): GET /api/comments, /api/balance-history, /api/balance, /health (and
\* /) change neither file; POST /api/comments does not change the history file
\* and GET /api/summary does not change the comments file.
FrameEffects ==
    [][ Served =>
            /\ resp'.route \in {"get_comments", "balance_history", "balance", "health", "root"}
                  => (commentsFile' = commentsFile /\ historyFile' = historyFile)
            /\ resp'.route = "post_comment" => historyFile' = historyFile
            /\ resp'.route = "summary" => commentsFile' = commentsFile ]_vars

FrameEffectsWitness ==
    /\ resp.route = "balance_history"
    /\ resp.status = 200
    /\ appended # <<>>
    /\ resp.body.history = Stored(historyFile)
    /\ Len(Stored(commentsFile)) >= 2

====
